---- MODULE Spec2Model ----
(***************************************************************************)
(* A model of the unik UUID library (src/src/lib.rs, src/src/rfc4122).     *)
(*                                                                         *)
(* Representation of the machine integers.  TLC's integers are 32 bits     *)
(* wide, so a u8 and a u16 are TLA+ integers, a u32 is the pair            *)
(* <<low half, high half>> of 16-bit limbs and a u64 is the sequence of    *)
(* its four 16-bit limbs, least significant first.  A Rust array b with    *)
(* indices 0..15 is a sequence with indices 1..16: b[k] in the source is   *)
(* b[k+1] here.                                                            *)
(*                                                                         *)
(* A string is the sequence of its UTF-8 bytes.  An ASCII byte is written  *)
(* as the one-character string of its character; the two bytes of the      *)
(* character U+00E9 are written "C3" (lead byte) and "A9" (continuation    *)
(* byte).                                                                  *)
(***************************************************************************)
EXTENDS Integers, Sequences, FiniteSets, TLC

VARIABLES
    call,     \* the constructor called and its arguments
    lay,      \* the Layout it returned
    uuid,     \* lay.generate(), a UUID (<<>> before the call)
    back,     \* Layout::from_raw_bytes(uuid.as_bytes())
    seen,     \* version(), variant() and get_timestamp() of lay
    text,     \* a string: format!("{:x}", uuid), or the caller's input
    parsed,   \* UUID::from_str(text)
    shown,    \* the other renderings of uuid and of lay: {}, {:X}, and Layout's
    clockSeq, \* the field self.0 of the shared ClockSeq
    pc,       \* per thread: where it is inside ClockSeq::new
    atom,     \* per thread: the AtomicU16 that ClockSeq::new creates
    calls,    \* per thread: the number of calls it has completed
    handed    \* the values fetch_add returned, in the order of the fetch_adds

vars == <<call, lay, uuid, back, seen, text, parsed, shown, clockSeq, pc, atom, calls, handed>>

codecVars == <<call, lay, uuid, back, seen, text, parsed, shown>>
clockVars == <<clockSeq, pc, atom, calls, handed>>

-----------------------------------------------------------------------------
(* Version and Variant: the enum discriminants. *)

Version_TIME == 1
Version_DCE == 2
Version_MD5 == 3
Version_RAND == 4
Version_SHA1 == 5

Variant_NCS == 0
Variant_RFC4122 == 1
Variant_MS == 2
Variant_FUT == 3

\* A Result: Ok(v) or Err(e); Panic stands for a call that aborts instead of returning.
Ok(v) == [kind |-> "Ok", val |-> v]
Err(e) == [kind |-> "Err", val |-> e]
Panic == [kind |-> "panic", val |-> "panic"]

-----------------------------------------------------------------------------
(* Integer conversions. *)

u16_from_le_bytes(b0, b1) == b0 + 256 * b1

u16_to_le_bytes(x) == <<x % 256, x \div 256>>

u32_from_le_bytes(b0, b1, b2, b3) == <<b0 + 256 * b1, b2 + 256 * b3>>

u32_to_le_bytes(x) == <<x[1] % 256, x[1] \div 256, x[2] % 256, x[2] \div 256>>

u64_to_le_bytes(x) ==
    <<x[1] % 256, x[1] \div 256, x[2] % 256, x[2] \div 256,
      x[3] % 256, x[3] \div 256, x[4] % 256, x[4] \div 256>>

MacAddress_new(b) == b

MacAddress_bytes(n) == n

-----------------------------------------------------------------------------
(* Layout <-> Bytes. *)

from_raw_bytes(bytes) ==
    [field_low |-> u32_from_le_bytes(bytes[1], bytes[2], bytes[3], bytes[4]),
     field_mid |-> u16_from_le_bytes(bytes[5], bytes[6]),
     field_high_and_version |-> u16_from_le_bytes(bytes[7], bytes[8]),
     clock_seq_high_and_reserved |-> bytes[9],
     clock_seq_low |-> bytes[10],
     node |-> MacAddress_new(<<bytes[11], bytes[12], bytes[13],
                               bytes[14], bytes[15], bytes[16]>>)]

\* A generate() that writes field_low most significant byte first.
generate_field_low_be(self) ==
    LET fl == u32_to_le_bytes(self.field_low)
        fm == u16_to_le_bytes(self.field_mid)
        fhv == u16_to_le_bytes(self.field_high_and_version)
        n == MacAddress_bytes(self.node)
    IN  <<fl[4], fl[3], fl[2], fl[1], fm[1], fm[2], fhv[1], fhv[2],
          self.clock_seq_high_and_reserved, self.clock_seq_low,
          n[1], n[2], n[3], n[4], n[5], n[6]>>

generate(self) ==
    LET fl == u32_to_le_bytes(self.field_low)
        fm == u16_to_le_bytes(self.field_mid)
        fhv == u16_to_le_bytes(self.field_high_and_version)
        n == MacAddress_bytes(self.node)
    IN  <<fl[1], fl[2], fl[3], fl[4], fm[1], fm[2], fhv[1], fhv[2],
          self.clock_seq_high_and_reserved, self.clock_seq_low,
          n[1], n[2], n[3], n[4], n[5], n[6]>>

as_bytes(u) == u

\* impl Into<Bytes> for Layout
Layout_into(self) ==
    LET fl == u32_to_le_bytes(self.field_low)
        fm == u16_to_le_bytes(self.field_mid)
        fhv == u16_to_le_bytes(self.field_high_and_version)
        n == MacAddress_bytes(self.node)
    IN  <<fl[1], fl[2], fl[3], fl[4], fm[1], fm[2], fhv[1], fhv[2],
          self.clock_seq_high_and_reserved, self.clock_seq_low,
          n[1], n[2], n[3], n[4], n[5], n[6]>>

\* A version() that shifts by 8 bits.
version_shift_8(self) ==
    LET v == self.field_high_and_version \div 256
    IN  CASE v = 1 -> Ok(Version_TIME)
          [] v = 2 -> Ok(Version_DCE)
          [] v = 3 -> Ok(Version_MD5)
          [] v = 4 -> Ok(Version_RAND)
          [] v = 5 -> Ok(Version_SHA1)
          [] OTHER -> Err("Invalid version")

version(self) ==
    LET v == self.field_high_and_version \div 4096
    IN  CASE v = 1 -> Ok(Version_TIME)
          [] v = 2 -> Ok(Version_DCE)
          [] v = 3 -> Ok(Version_MD5)
          [] v = 4 -> Ok(Version_RAND)
          [] v = 5 -> Ok(Version_SHA1)
          [] OTHER -> Err("Invalid version")

\* A variant() that reads the top two bits only.
variant_two_bits(self) ==
    LET v == (self.clock_seq_high_and_reserved \div 64) % 4
    IN  CASE v \in 0..3 -> Ok(Variant_NCS)
          [] v \in {4, 5} -> Ok(Variant_RFC4122)
          [] v = 6 -> Ok(Variant_MS)
          [] v = 7 -> Ok(Variant_FUT)
          [] OTHER -> Err("Invalid variant")

variant(self) ==
    LET v == (self.clock_seq_high_and_reserved \div 32) % 8
    IN  CASE v \in 0..3 -> Ok(Variant_NCS)
          [] v \in {4, 5} -> Ok(Variant_RFC4122)
          [] v = 6 -> Ok(Variant_MS)
          [] v = 7 -> Ok(Variant_FUT)
          [] OTHER -> Err("Invalid variant")

\* The u64 field_low | field_mid << 32 | ((field_high_and_version >> 4) & 0xff) << 48.
get_timestamp(self) ==
    <<self.field_low[1], self.field_low[2], self.field_mid,
      (self.field_high_and_version \div 16) % 256>>

-----------------------------------------------------------------------------
(* The layout! macro and the constructors that use it. *)

layout(b) ==
    [field_low |-> <<b[1] + 256 * b[2], b[3] + 256 * b[4]>>,
     field_mid |-> b[5] + 256 * b[6],
     field_high_and_version |-> b[7] + 256 * b[8],
     clock_seq_high_and_reserved |-> (b[9] % 16) + 16 * Variant_RFC4122,
     clock_seq_low |-> b[10],
     node |-> MacAddress_new(<<b[11], b[12], b[13], b[14], b[15], b[16]>>)]

\* AtomicU16::fetch_add(1): the value before, and the value stored.
fetch_add(a) == [ret |-> a, val |-> (a + 1) % 65536]

\* ClockSeq::new on a ClockSeq whose field is self0.
ClockSeq_new(self0) == fetch_add(self0).ret

\* r is the u16 that WyRand generates.
clock_seq_high_and_reserved(r) == ClockSeq_new(r)

\* r1 and r2 are the two random draws of the two calls in the macro arguments.
v1(time, node, r1, r2) ==
    LET t == u64_to_le_bytes(time)
        n == MacAddress_bytes(node)
    IN  layout(<<t[1], t[2], t[3], t[4], t[5], t[6], t[7],
                 Version_TIME * 16,
                 u16_to_le_bytes(clock_seq_high_and_reserved(r1))[1],
                 u16_to_le_bytes(clock_seq_high_and_reserved(r2))[2],
                 n[1], n[2], n[3], n[4], n[5], n[6]>>)

\* hash is the first 16 bytes of the SHA-1 digest.
v3(hash) ==
    layout([hash EXCEPT ![7] = Version_MD5 * 16 + (hash[7] % 16)])

\* rand is get_random().to_le_bytes().
v4(rand) ==
    layout([rand EXCEPT ![7] = Version_RAND * 16 + (rand[7] % 16)])

\* hash is the MD5 digest.
v5(hash) ==
    layout([hash EXCEPT ![7] = Version_SHA1 * 16 + (hash[7] % 16)])

-----------------------------------------------------------------------------
(* DCE security identifiers (rfc4122/v2.rs). *)

Domain_PERSON == 0
Domain_GROUP == 1
Domain_ORG == 2

get_domain(self) ==
    CASE self.clock_seq_low = 0 -> Ok(Domain_PERSON)
      [] self.clock_seq_low = 1 -> Ok(Domain_GROUP)
      [] self.clock_seq_low = 2 -> Ok(Domain_ORG)
      [] OTHER -> Err("Invalid Domain name")

get_id(self) == self.field_low

u32_to_be_bytes(x) == <<x[2] \div 256, x[2] % 256, x[1] \div 256, x[1] % 256>>

\* UUID::v1() as from_domain calls it, without arguments: the v1 Layout of the
\* current time and of the node of the host.
v1_now(time, node, r1, r2) == v1(time, node, r1, r2)

\* Layout::from_bytes as from_domain calls it: the fields at the offsets 0..3, 4..5,
\* 6..7, 8, 9, 10..15 that generate() packs them to.
Layout_from_bytes(bytes) ==
    [field_low |-> u32_from_le_bytes(bytes[1], bytes[2], bytes[3], bytes[4]),
     field_mid |-> u16_from_le_bytes(bytes[5], bytes[6]),
     field_high_and_version |-> u16_from_le_bytes(bytes[7], bytes[8]),
     clock_seq_high_and_reserved |-> bytes[9],
     clock_seq_low |-> bytes[10],
     node |-> MacAddress_new(<<bytes[11], bytes[12], bytes[13],
                               bytes[14], bytes[15], bytes[16]>>)]

\* A from_domain that writes the domain to byte 8.
from_domain_tag_in_byte_8(platform, dom, i, pid, gid, now) ==
    IF platform \notin {"unix", "windows"}
    THEN Panic
    ELSE LET id == IF platform = "unix"
                   THEN IF dom = Domain_PERSON THEN u32_to_be_bytes(pid)
                        ELSE IF dom = Domain_GROUP THEN u32_to_be_bytes(gid)
                        ELSE u32_to_be_bytes(i)
                   ELSE IF dom = Domain_PERSON \/ dom = Domain_GROUP
                        THEN u32_to_be_bytes(pid)
                        ELSE u32_to_be_bytes(i)
             bytes == as_bytes(generate(now))
             tagged == [bytes EXCEPT ![1] = id[1], ![2] = id[2], ![3] = id[3],
                                     ![4] = id[4], ![7] = Version_DCE * 16,
                                     ![9] = dom]
         IN  Ok(Layout_from_bytes(tagged))

\* platform is the cfg! of the build; pid and gid are what getpid() and getgid()
\* return; now is the Layout UUID::v1() returns.
from_domain(platform, dom, i, pid, gid, now) ==
    IF platform \notin {"unix", "windows"}
    THEN Panic
    ELSE LET id == IF platform = "unix"
                   THEN IF dom = Domain_PERSON THEN u32_to_be_bytes(pid)
                        ELSE IF dom = Domain_GROUP THEN u32_to_be_bytes(gid)
                        ELSE u32_to_be_bytes(i)
                   ELSE IF dom = Domain_PERSON \/ dom = Domain_GROUP
                        THEN u32_to_be_bytes(pid)
                        ELSE u32_to_be_bytes(i)
             bytes == as_bytes(generate(now))
             tagged == [bytes EXCEPT ![1] = id[1], ![2] = id[2], ![3] = id[3],
                                     ![4] = id[4], ![7] = Version_DCE * 16,
                                     ![10] = dom]
         IN  Ok(Layout_from_bytes(tagged))

from_dce_person(platform, pid, gid, now) ==
    from_domain(platform, Domain_PERSON, <<0, 0>>, pid, gid, now)

from_dce_group(platform, pid, gid, now) ==
    from_domain(platform, Domain_GROUP, <<0, 0>>, pid, gid, now)

from_dce_org(platform, id, pid, gid, now) ==
    from_domain(platform, Domain_ORG, id, pid, gid, now)

-----------------------------------------------------------------------------
(* Formatting. *)

HexLower == <<"0", "1", "2", "3", "4", "5", "6", "7",
              "8", "9", "a", "b", "c", "d", "e", "f">>

HexUpper == <<"0", "1", "2", "3", "4", "5", "6", "7",
              "8", "9", "A", "B", "C", "D", "E", "F">>

\* A {:02x} that writes the low digit first.
fmt_02x_low_first(b) == <<HexLower[(b % 16) + 1], HexLower[(b \div 16) + 1]>>

\* {:02x} and {:02X} of a u8.
fmt_02x(b) == <<HexLower[(b \div 16) + 1], HexLower[(b % 16) + 1]>>

fmt_02X(b) == <<HexUpper[(b \div 16) + 1], HexUpper[(b % 16) + 1]>>

UUID_Display(b) ==
    fmt_02x(b[1]) \o fmt_02x(b[2]) \o fmt_02x(b[3]) \o fmt_02x(b[4])
    \o fmt_02x(b[5]) \o fmt_02x(b[6]) \o fmt_02x(b[7]) \o fmt_02x(b[8])
    \o fmt_02x(b[9]) \o fmt_02x(b[10]) \o fmt_02x(b[11]) \o fmt_02x(b[12])
    \o fmt_02x(b[13]) \o fmt_02x(b[14]) \o fmt_02x(b[15]) \o fmt_02x(b[16])

UUID_LowerHex(b) ==
    fmt_02x(b[1]) \o fmt_02x(b[2]) \o fmt_02x(b[3]) \o fmt_02x(b[4]) \o <<"-">>
    \o fmt_02x(b[5]) \o fmt_02x(b[6]) \o <<"-">>
    \o fmt_02x(b[7]) \o fmt_02x(b[8]) \o <<"-">>
    \o fmt_02x(b[9]) \o fmt_02x(b[10]) \o <<"-">>
    \o fmt_02x(b[11]) \o fmt_02x(b[12]) \o fmt_02x(b[13])
    \o fmt_02x(b[14]) \o fmt_02x(b[15]) \o fmt_02x(b[16])

UUID_UpperHex(b) ==
    fmt_02X(b[1]) \o fmt_02X(b[2]) \o fmt_02X(b[3]) \o fmt_02X(b[4]) \o <<"-">>
    \o fmt_02X(b[5]) \o fmt_02X(b[6]) \o <<"-">>
    \o fmt_02X(b[7]) \o fmt_02X(b[8]) \o <<"-">>
    \o fmt_02X(b[9]) \o fmt_02X(b[10]) \o <<"-">>
    \o fmt_02X(b[11]) \o fmt_02X(b[12]) \o fmt_02X(b[13])
    \o fmt_02X(b[14]) \o fmt_02X(b[15]) \o fmt_02X(b[16])

\* Layout's Display, LowerHex and UpperHex format self.generate().0 with the
\* format strings of UUID's.
Layout_Display(self) == UUID_Display(generate(self))

Layout_LowerHex(self) == UUID_LowerHex(generate(self))

Layout_UpperHex(self) == UUID_UpperHex(generate(self))

-----------------------------------------------------------------------------
(* Parsing. *)

\* The UTF-8 continuation bytes among the bytes of the model.
ContinuationBytes == {"A9"}

is_ascii_whitespace(c) == c \in {" ", "\t", "\n", "\f", "\r"}

is_char_boundary(us, idx) ==
    \/ idx = 0
    \/ idx = Len(us)
    \/ idx < Len(us) /\ us[idx + 1] \notin ContinuationBytes

\* &us[from..to] is in range and cuts no character.
slice_ok(us, from, to) ==
    /\ from <= to
    /\ to <= Len(us)
    /\ is_char_boundary(us, from)
    /\ is_char_boundary(us, to)

\* char::to_digit(16), -1 for None.
to_digit(c) ==
    IF \E i \in 1..16 : HexLower[i] = c
    THEN (CHOOSE i \in 1..16 : HexLower[i] = c) - 1
    ELSE IF \E i \in 1..16 : HexUpper[i] = c
         THEN (CHOOSE i \in 1..16 : HexUpper[i] = c) - 1
         ELSE -1

\* u8::from_str_radix(s, 16) of a two-byte slice: an optional "+" and hex digits.
from_str_radix(s) ==
    IF s[1] = "+"
    THEN IF to_digit(s[2]) >= 0 THEN Ok(to_digit(s[2])) ELSE Err("InvalidDigit")
    ELSE IF to_digit(s[1]) >= 0 /\ to_digit(s[2]) >= 0
         THEN Ok(16 * to_digit(s[1]) + to_digit(s[2]))
         ELSE Err("InvalidDigit")

contains(us, c) == \E i \in 1..Len(us) : us[i] = c

KeepChar(c) == ~is_ascii_whitespace(c) /\ c # "-"

retain(us) == SelectSeq(us, KeepChar)

\* The loop for i in 0..15 from iteration i on; bytes is the array filled so far.
RECURSIVE from_str_loop(_, _, _)
from_str_loop(us, i, bytes) ==
    IF i >= 15
    THEN Ok(bytes)
    ELSE IF ~slice_ok(us, i * 2, i * 2 + 2)
         THEN Panic
         ELSE LET byte == from_str_radix(SubSeq(us, i * 2 + 1, i * 2 + 2))
              IN  IF byte.kind = "Err"
                  THEN Err("Invalid UUID string")
                  ELSE from_str_loop(us, i + 1, [bytes EXCEPT ![i + 1] = byte.val])

\* A from_str that takes the two bytes of field_high_and_version in string order.
from_str_high_in_order(us) ==
    IF Len(us) = 36 \/ Len(us) = 32
    THEN LET us1 == IF contains(us, "-") THEN retain(us) ELSE us
             r == from_str_loop(us1, 0, [k \in 1..16 |-> 0])
         IN  IF r.kind # "Ok"
             THEN r
             ELSE LET bytes == r.val
                  IN  Ok([field_low |-> u32_from_le_bytes(bytes[4], bytes[3],
                                                         bytes[2], bytes[1]),
                          field_mid |-> u16_from_le_bytes(bytes[6], bytes[5]),
                          field_high_and_version |->
                              u16_from_le_bytes(bytes[7], bytes[8]),
                          clock_seq_high_and_reserved |-> bytes[9],
                          clock_seq_low |-> bytes[10],
                          node |-> MacAddress_new(<<bytes[11], bytes[12], bytes[13],
                                                    bytes[14], bytes[15], bytes[16]>>)])
    ELSE Err("Invalid UUID string")

from_str(us) ==
    IF Len(us) = 36 \/ Len(us) = 32
    THEN LET us1 == IF contains(us, "-") THEN retain(us) ELSE us
             r == from_str_loop(us1, 0, [k \in 1..16 |-> 0])
         IN  IF r.kind # "Ok"
             THEN r
             ELSE LET bytes == r.val
                  IN  Ok([field_low |-> u32_from_le_bytes(bytes[4], bytes[3],
                                                         bytes[2], bytes[1]),
                          field_mid |-> u16_from_le_bytes(bytes[6], bytes[5]),
                          field_high_and_version |->
                              u16_from_le_bytes(bytes[8], bytes[7]),
                          clock_seq_high_and_reserved |-> bytes[9],
                          clock_seq_low |-> bytes[10],
                          node |-> MacAddress_new(<<bytes[11], bytes[12], bytes[13],
                                                    bytes[14], bytes[15], bytes[16]>>)])
    ELSE Err("Invalid UUID string")

-----------------------------------------------------------------------------
(* The arguments the calls are made with. *)

Ramp == <<1, 35, 69, 103, 137, 171, 205, 239, 254, 220, 186, 152, 118, 84, 50, 16>>

Zeros == [k \in 1..16 |-> 0]

Ones == [k \in 1..16 |-> 255]

ByteVals == {0, 15, 16, 95, 128, 191, 192, 255}

\* 16-byte arrays with every high digit in byte 7 (read by version()), every top
\* three bits in byte 8 (read by variant()) and the small values in byte 9 (read
\* by get_domain()).
TagArrays ==
    {[base EXCEPT ![8] = 16 * n + m] :
        base \in {Ramp, Zeros, Ones}, n \in 0..15, m \in {0, 15}}
    \cup {[base EXCEPT ![9] = 32 * n + m] :
        base \in {Ramp, Zeros, Ones}, n \in 0..7, m \in {0, 31}}
    \cup {[base EXCEPT ![10] = d] : base \in {Ramp, Zeros, Ones}, d \in 0..4}

\* 16-byte arrays: a pattern with one byte anywhere and one of the bytes 6, 7, 8
\* (the version and variant bytes) replaced.
ByteArrays ==
    {[[base EXCEPT ![i] = x] EXCEPT ![j] = y] :
        base \in {Ramp, Zeros, Ones}, i \in 1..16, j \in {7, 8, 9},
        x \in {0, 255}, y \in ByteVals}
    \cup TagArrays

\* u64 timestamps, as limbs; the last one does not fit 60 bits.
TimeStamps ==
    {<<l0, l1, l2, l3>> :
        l0 \in {0, 1, 24910}, l1 \in {0, 188, 65535}, l2 \in {0, 43981},
        l3 \in {0, 1, 16, 2748, 4095, 61731}}

Nodes == {<<0, 0, 0, 0, 0, 0>>, <<2, 66, 172, 18, 0, 2>>}

\* The u16 values the random generator returns.
RandomU16 == {0, 185, 47361, 65535}

IsSixtyBit(time) == time[4] < 4096

\* The cfg! of the build: unix, windows, or neither.
Platforms == {"unix", "windows", "other"}

\* u32 values, as limbs: the organisation ids, and the ids of the process.
OrgIds == {<<0, 0>>, <<1234, 0>>, <<772, 258>>, <<65535, 65535>>}

UserIds == {<<0, 0>>, <<1000, 0>>}

GroupIds == {<<100, 0>>, <<1000, 0>>}

ProcessIds == {<<1, 0>>, <<4242, 1>>}

\* What UUID::v1() returns inside from_domain.
NowLayouts ==
    {v1_now(time, node, r, r) :
        time \in {<<24910, 188, 0, 0>>, <<65535, 65535, 43981, 4095>>},
        node \in Nodes, r \in {185, 47361}}

-----------------------------------------------------------------------------
(* A caller that builds one Layout, reads its version, variant and         *)
(* timestamp, packs it, unpacks the bytes, prints them and parses the      *)
(* string, in this order.                                                  *)

NoCall == [op |-> "none", time |-> <<0, 0, 0, 0>>, node |-> <<0, 0, 0, 0, 0, 0>>,
           bytes |-> <<>>, platform |-> "none", id |-> <<0, 0>>,
           uid |-> <<0, 0>>, gid |-> <<0, 0>>, pid |-> <<0, 0>>]

NoLayout == [none |-> TRUE]

NoSeen == [none |-> TRUE]

NoResult == [kind |-> "none", val |-> "none"]

NoShown == [none |-> TRUE]

ClockIdle ==
    /\ clockSeq = 0
    /\ pc = <<>>
    /\ atom = <<>>
    /\ calls = <<>>
    /\ handed = <<>>

Init ==
    /\ call = NoCall
    /\ lay = NoLayout
    /\ uuid = <<>>
    /\ back = NoLayout
    /\ seen = NoSeen
    /\ text = <<>>
    /\ parsed = NoResult
    /\ shown = NoShown
    /\ ClockIdle

V1(time, node, r1, r2) ==
    /\ call = NoCall
    /\ call' = [NoCall EXCEPT !.op = "v1", !.time = time, !.node = node]
    /\ lay' = v1(time, node, r1, r2)
    /\ UNCHANGED <<uuid, back, seen, text, parsed>>
    /\ UNCHANGED shown
    /\ UNCHANGED clockVars

V3(hash) ==
    /\ call = NoCall
    /\ call' = [NoCall EXCEPT !.op = "v3", !.bytes = hash]
    /\ lay' = v3(hash)
    /\ UNCHANGED <<uuid, back, seen, text, parsed>>
    /\ UNCHANGED shown
    /\ UNCHANGED clockVars

V4(rand) ==
    /\ call = NoCall
    /\ call' = [NoCall EXCEPT !.op = "v4", !.bytes = rand]
    /\ lay' = v4(rand)
    /\ UNCHANGED <<uuid, back, seen, text, parsed>>
    /\ UNCHANGED shown
    /\ UNCHANGED clockVars

V5(hash) ==
    /\ call = NoCall
    /\ call' = [NoCall EXCEPT !.op = "v5", !.bytes = hash]
    /\ lay' = v5(hash)
    /\ UNCHANGED <<uuid, back, seen, text, parsed>>
    /\ UNCHANGED shown
    /\ UNCHANGED clockVars

FromRawBytes(bytes) ==
    /\ call = NoCall
    /\ call' = [NoCall EXCEPT !.op = "from_raw_bytes", !.bytes = bytes]
    /\ lay' = from_raw_bytes(bytes)
    /\ UNCHANGED <<uuid, back, seen, text, parsed>>
    /\ UNCHANGED shown
    /\ UNCHANGED clockVars

\* UUID::from_dce_person(), in a process with these ids
FromDcePerson(platform, uid, gid, pid, now) ==
    /\ call = NoCall
    /\ call' = [NoCall EXCEPT !.op = "from_dce_person", !.platform = platform,
                              !.uid = uid, !.gid = gid, !.pid = pid]
    /\ lay' = LET r == from_dce_person(platform, pid, gid, now)
              IN  IF r.kind = "Ok" THEN r.val ELSE NoLayout
    /\ UNCHANGED <<uuid, back, seen, text, parsed>>
    /\ UNCHANGED shown
    /\ UNCHANGED clockVars

\* UUID::from_dce_group()
FromDceGroup(platform, uid, gid, pid, now) ==
    /\ call = NoCall
    /\ call' = [NoCall EXCEPT !.op = "from_dce_group", !.platform = platform,
                              !.uid = uid, !.gid = gid, !.pid = pid]
    /\ lay' = LET r == from_dce_group(platform, pid, gid, now)
              IN  IF r.kind = "Ok" THEN r.val ELSE NoLayout
    /\ UNCHANGED <<uuid, back, seen, text, parsed>>
    /\ UNCHANGED shown
    /\ UNCHANGED clockVars

\* UUID::from_dce_org(id)
FromDceOrg(platform, id, uid, gid, pid, now) ==
    /\ call = NoCall
    /\ call' = [NoCall EXCEPT !.op = "from_dce_org", !.platform = platform,
                              !.id = id, !.uid = uid, !.gid = gid, !.pid = pid]
    /\ lay' = LET r == from_dce_org(platform, id, pid, gid, now)
              IN  IF r.kind = "Ok" THEN r.val ELSE NoLayout
    /\ UNCHANGED <<uuid, back, seen, text, parsed>>
    /\ UNCHANGED shown
    /\ UNCHANGED clockVars

\* lay.version(), lay.variant(), lay.get_timestamp(), lay.get_domain(), lay.get_id()
Inspect ==
    /\ call # NoCall
    /\ lay # NoLayout
    /\ seen = NoSeen
    /\ seen' = [version |-> version(lay), variant |-> variant(lay),
                timestamp |-> get_timestamp(lay),
                domain |-> get_domain(lay), id |-> get_id(lay)]
    /\ UNCHANGED <<call, lay, uuid, back, text, parsed>>
    /\ UNCHANGED shown
    /\ UNCHANGED clockVars

\* lay.generate()
Generate ==
    /\ seen # NoSeen
    /\ uuid = <<>>
    /\ uuid' = generate(lay)
    /\ UNCHANGED <<call, lay, back, seen, text, parsed>>
    /\ UNCHANGED shown
    /\ UNCHANGED clockVars

\* Layout::from_raw_bytes(uuid.as_bytes())
Unpack ==
    /\ uuid # <<>>
    /\ back = NoLayout
    /\ back' = from_raw_bytes(as_bytes(uuid))
    /\ UNCHANGED <<call, lay, uuid, seen, text, parsed>>
    /\ UNCHANGED shown
    /\ UNCHANGED clockVars

\* format!("{:x}", uuid)
Format ==
    /\ back # NoLayout
    /\ text = <<>>
    /\ text' = UUID_LowerHex(uuid)
    /\ UNCHANGED <<call, lay, uuid, back, seen, parsed>>
    /\ UNCHANGED shown
    /\ UNCHANGED clockVars

\* UUID::from_str(text)
FromStr ==
    /\ text # <<>> \/ call.op = "from_str"
    /\ parsed = NoResult
    /\ parsed' = from_str(text)
    /\ UNCHANGED <<call, lay, uuid, back, seen, text>>
    /\ UNCHANGED shown
    /\ UNCHANGED clockVars

\* tests::uuid_formatter: the renderings {} and {:X} of uuid, and {}, {:x}, {:X} of lay
Formatter ==
    /\ call.op # "from_str"
    /\ parsed.kind # "none"
    /\ shown = NoShown
    /\ shown' = [display |-> UUID_Display(uuid),
                 upper |-> UUID_UpperHex(uuid),
                 layout_display |-> Layout_Display(lay),
                 layout_lower |-> Layout_LowerHex(lay),
                 layout_upper |-> Layout_UpperHex(lay)]
    /\ UNCHANGED <<call, lay, uuid, back, seen, text, parsed>>
    /\ UNCHANGED clockVars

Next ==
    \/ /\ call = NoCall
       /\ \E time \in TimeStamps, node \in Nodes, r1 \in RandomU16, r2 \in RandomU16 :
             V1(time, node, r1, r2)
    \/ /\ call = NoCall
       /\ \E hash \in ByteArrays : V3(hash)
    \/ /\ call = NoCall
       /\ \E rand \in ByteArrays : V4(rand)
    \/ /\ call = NoCall
       /\ \E hash \in ByteArrays : V5(hash)
    \/ /\ call = NoCall
       /\ \E bytes \in ByteArrays : FromRawBytes(bytes)
    \/ /\ call = NoCall
       /\ \E platform \in Platforms, uid \in UserIds, gid \in GroupIds,
             pid \in ProcessIds, now \in NowLayouts :
             FromDcePerson(platform, uid, gid, pid, now)
    \/ /\ call = NoCall
       /\ \E platform \in Platforms, uid \in UserIds, gid \in GroupIds,
             pid \in ProcessIds, now \in NowLayouts :
             FromDceGroup(platform, uid, gid, pid, now)
    \/ /\ call = NoCall
       /\ \E platform \in Platforms, id \in OrgIds, uid \in UserIds,
             gid \in GroupIds, pid \in ProcessIds, now \in NowLayouts :
             FromDceOrg(platform, id, uid, gid, pid, now)
    \/ Inspect
    \/ Generate
    \/ Unpack
    \/ Format
    \/ FromStr
    \/ Formatter

Spec == Init /\ [][Next]_vars

-----------------------------------------------------------------------------
(* A caller that parses a string of its own.                               *)

\* tests::UUID_TEST[0].
UUID_TEST_0 ==
    <<"a", "b", "7", "2", "0", "2", "6", "8", "-", "b", "8", "3", "f", "-",
      "1", "1", "e", "c", "-", "b", "9", "0", "9", "-", "0", "2", "4", "2",
      "a", "c", "1", "2", "0", "0", "0", "2">>

\* The same 32 digits without the hyphens.
UUID_TEST_0_Simple ==
    <<"a", "b", "7", "2", "0", "2", "6", "8", "b", "8", "3", "f", "1", "1",
      "e", "c", "b", "9", "0", "9", "0", "2", "4", "2", "a", "c", "1", "2",
      "0", "0", "0", "2">>

UUID_TEST_1 ==
    <<"0", "0", "0", "0", "0", "3", "e", "8", "-", "c", "2", "2", "b", "-",
      "2", "1", "e", "c", "-", "b", "d", "0", "1", "-", "d", "4", "b", "e",
      "d", "9", "4", "0", "8", "e", "c", "c">>

UUID_TEST_2 ==
    <<"1", "7", "d", "0", "4", "0", "b", "d", "-", "4", "4", "d", "6", "-",
      "3", "d", "a", "b", "-", "8", "c", "2", "6", "-", "7", "2", "4", "9",
      "7", "8", "b", "6", "a", "9", "1", "d">>

UUID_TEST_3 ==
    <<"6", "a", "6", "6", "5", "0", "3", "8", "-", "2", "4", "c", "f", "-",
      "4", "c", "f", "6", "-", "9", "b", "6", "1", "-", "0", "5", "f", "0",
      "c", "2", "f", "c", "6", "c", "0", "8">>

UUID_TEST_4 ==
    <<"4", "9", "8", "f", "6", "7", "a", "8", "-", "e", "b", "c", "5", "-",
      "5", "2", "9", "9", "-", "a", "a", "3", "3", "-", "7", "c", "3", "5",
      "8", "b", "9", "c", "6", "0", "e", "8">>

\* Well-formed hyphenated strings: the test strings, and UUID_TEST[0] with every
\* lowercase digit at index 14 (read by version()) and at index 19 (by variant()).
CanonicalStrings ==
    {UUID_TEST_0, UUID_TEST_1, UUID_TEST_2, UUID_TEST_3, UUID_TEST_4}
    \cup {[[UUID_TEST_0 EXCEPT ![15] = HexLower[d1]] EXCEPT ![20] = HexLower[d2]] :
             d1 \in 1..16, d2 \in 1..16}

Repeat(c, n) == [k \in 1..n |-> c]

BaseStrings ==
    {UUID_TEST_0, UUID_TEST_0_Simple, Repeat("-", 32), Repeat("-", 36)}
    \cup {Repeat("0", n) : n \in {0, 16, 31, 32, 33, 36, 37}}

\* The number of bytes of a base string that are replaced.
MaxEdits == 2

EditPositions == {1, 2, 3, 9, 10, 31, 32, 36}

EditBytes == {"-", " ", "g", "+", "C3", "A9"}

\* One replacement: a position and the byte put there; position 0 replaces nothing.
Edits == {<<0, "-">>} \cup (EditPositions \X EditBytes)

\* n replacements, at increasing positions after those that replace nothing.
Scripts(n) ==
    {es \in [1..n -> Edits] :
        \A k \in 1..(n - 1) : es[k][1] = 0 \/ es[k][1] < es[k + 1][1]}

RECURSIVE ApplyEdits(_, _, _)
ApplyEdits(s, es, k) ==
    IF k = 0
    THEN s
    ELSE LET t == ApplyEdits(s, es, k - 1)
             e == es[k]
         IN  IF e[1] = 0 \/ e[1] > Len(t) THEN t ELSE [t EXCEPT ![e[1]] = e[2]]

\* The strings of S, and those of 32 bytes or more with at most n bytes replaced.
Edited(S, n) ==
    S \cup {ApplyEdits(s, es, n) : s \in {z \in S : Len(z) >= 32}, es \in Scripts(n)}

\* A &str holds well-formed UTF-8: "C3" and "A9" only as the pair "C3" "A9".
IsUtf8(s) ==
    \A i \in 1..Len(s) :
        /\ s[i] = "C3" => (i < Len(s) /\ s[i + 1] = "A9")
        /\ s[i] = "A9" => (i > 1 /\ s[i - 1] = "C3")

InputStrings ==
    {s \in Edited(BaseStrings, MaxEdits) : IsUtf8(s)} \cup CanonicalStrings

ParseInit ==
    /\ call = [NoCall EXCEPT !.op = "from_str"]
    /\ lay = NoLayout
    /\ uuid = <<>>
    /\ back = NoLayout
    /\ seen = NoSeen
    /\ text \in InputStrings
    /\ parsed = NoResult
    /\ shown = NoShown
    /\ ClockIdle

\* let bytes: Bytes = layout.into(), of the Layout that from_str returned
IntoBytes ==
    /\ call.op = "from_str"
    /\ parsed.kind = "Ok"
    /\ uuid = <<>>
    /\ uuid' = Layout_into(parsed.val)
    /\ UNCHANGED <<call, lay, back, seen, text, parsed, shown>>
    /\ UNCHANGED clockVars

\* version() and variant() of the parsed Layout and of the one unpacked from its bytes
InspectParsed ==
    /\ call.op = "from_str"
    /\ back # NoLayout
    /\ seen = NoSeen
    /\ seen' = [version |-> version(parsed.val),
                variant |-> variant(parsed.val),
                timestamp |-> get_timestamp(parsed.val),
                back_version |-> version(back),
                back_variant |-> variant(back)]
    /\ UNCHANGED <<call, lay, uuid, back, text, parsed, shown>>
    /\ UNCHANGED clockVars

ParseNext ==
    \/ FromStr
    \/ IntoBytes
    \/ Unpack
    \/ InspectParsed

ParseSpec == ParseInit /\ [][ParseNext]_vars

-----------------------------------------------------------------------------
(* Threads that share one ClockSeq and call ClockSeq::new on it.  The body *)
(* of ClockSeq::new is two steps: AtomicU16::new(self.0) makes a temporary *)
(* atomic, then fetch_add on that temporary gives the value returned.      *)

NumThreads == 2

MaxCalls == 2

Threads == 1..NumThreads

\* The values of the field self.0 the ClockSeq is built with.
Seeds == {0, 16383, 16384, 65535}

ClockInit ==
    /\ call = NoCall
    /\ lay = NoLayout
    /\ uuid = <<>>
    /\ back = NoLayout
    /\ seen = NoSeen
    /\ text = <<>>
    /\ parsed = NoResult
    /\ shown = NoShown
    /\ clockSeq \in Seeds
    /\ pc = [t \in Threads |-> "idle"]
    /\ atom = [t \in Threads |-> 0]
    /\ calls = [t \in Threads |-> 0]
    /\ handed = <<>>

\* AtomicU16::new(self.0)
AtomicNew(t) ==
    /\ pc[t] = "idle"
    /\ calls[t] < MaxCalls
    /\ atom' = [atom EXCEPT ![t] = clockSeq]
    /\ pc' = [pc EXCEPT ![t] = "created"]
    /\ UNCHANGED <<clockSeq, calls, handed>>
    /\ UNCHANGED codecVars

\* .fetch_add(1, SeqCst) on the temporary, whose result is returned; the
\* temporary is dropped.
FetchAdd(t) ==
    /\ pc[t] = "created"
    /\ handed' = Append(handed, [thread |-> t, value |-> fetch_add(atom[t]).ret])
    /\ atom' = [atom EXCEPT ![t] = 0]
    /\ calls' = [calls EXCEPT ![t] = @ + 1]
    /\ pc' = [pc EXCEPT ![t] = "idle"]
    /\ UNCHANGED clockSeq
    /\ UNCHANGED codecVars

ClockNext ==
    \/ \E t \in Threads : AtomicNew(t)
    \/ \E t \in Threads : FetchAdd(t)

ClockSpec == ClockInit /\ [][ClockNext]_vars

-----------------------------------------------------------------------------
(* Properties of the codec. *)

\* C1: unpacking the bytes a Layout packs to gives the Layout back, and packing the
\* Layout that 16 bytes unpack to gives the 16 bytes back.
C1_PackUnpackRoundTrip ==
    /\ back # NoLayout => back = lay
    /\ (call.op = "from_raw_bytes" /\ uuid # <<>>) => as_bytes(uuid) = call.bytes

\* A Layout whose field_low has four different bytes was packed and unpacked.
C1_Witness ==
    /\ call.op = "from_raw_bytes"
    /\ back # NoLayout
    /\ lay.field_low = <<8961, 26437>>
    /\ lay.field_mid = 43913

\* C2: parsing the lowercase hyphenated rendering of an identifier succeeds and the
\* parsed Layout packs to the same 16 bytes.
C2_StringRoundTrip ==
    parsed.kind # "none" =>
        /\ parsed.kind = "Ok"
        /\ as_bytes(generate(parsed.val)) = as_bytes(uuid)

\* C3: the Layout that v1, v3, v4 or v5 returns has the variant RFC4122.
C3_VariantIsRFC4122 ==
    (call.op \in {"v1", "v3", "v4", "v5"} /\ seen # NoSeen) =>
        seen.variant = Ok(Variant_RFC4122)

\* C4: the Layout that v1 returns has version TIME, v3 MD5, v4 RAND and v5 SHA1.
C4_VersionMatches ==
    seen # NoSeen =>
        /\ call.op = "v1" => seen.version = Ok(Version_TIME)
        /\ call.op = "v3" => seen.version = Ok(Version_MD5)
        /\ call.op = "v4" => seen.version = Ok(Version_RAND)
        /\ call.op = "v5" => seen.version = Ok(Version_SHA1)

\* C5: get_timestamp() of the Layout v1 builds from a 60-bit timestamp is that timestamp.
C5_TimestampRecovered ==
    (call.op = "v1" /\ IsSixtyBit(call.time) /\ seen # NoSeen) =>
        seen.timestamp = call.time

\* C6: the v1 timestamp is read back from the Layout parsed from the {:x} rendering.
C6_TimestampSurvivesString ==
    (call.op = "v1" /\ IsSixtyBit(call.time) /\ parsed.kind # "none") =>
        /\ parsed.kind = "Ok"
        /\ get_timestamp(parsed.val) = call.time

-----------------------------------------------------------------------------
(* Properties of the clock sequence. *)

\* C7: the values handed to different threads are pairwise distinct modulo 16384.
C7_DistinctAcrossThreads ==
    \A i, j \in 1..Len(handed) :
        handed[i].thread # handed[j].thread =>
            handed[i].value % 16384 # handed[j].value % 16384

\* C8: each call returns the value of the call before it plus 1, modulo 2^16.
C8_EachCallIsSuccessor ==
    \A i \in 2..Len(handed) :
        handed[i].value = (handed[i - 1].value + 1) % 65536

-----------------------------------------------------------------------------
(* Properties of the parser. *)

HexDigits == {HexLower[i] : i \in 1..16} \cup {HexUpper[i] : i \in 1..16}

HyphenPositions == {9, 14, 19, 24}

IsHyphenated36(s) ==
    /\ Len(s) = 36
    /\ \A i \in 1..36 :
          IF i \in HyphenPositions THEN s[i] = "-" ELSE s[i] \in HexDigits

IsSimple32(s) ==
    /\ Len(s) = 32
    /\ \A i \in 1..32 : s[i] \in HexDigits

\* C9: from_str returns Ok only for 36 characters with hyphens at 8, 13, 18, 23 and
\* hex digits elsewhere, or for 32 hex digits.
C9_OkOnlyForTheTwoForms ==
    parsed.kind = "Ok" => (IsHyphenated36(text) \/ IsSimple32(text))

\* C10: from_str returns Ok or Err for every string; it never panics.
C10_ParseNeverPanics ==
    parsed.kind \in {"none", "Ok", "Err"}

\* C11: a string of 32 or 36 bytes that holds a character that is neither a hex
\* digit, a hyphen nor ASCII whitespace is rejected with Err.
C11_BadCharacterRejected ==
    (/\ parsed.kind # "none"
     /\ Len(text) \in {32, 36}
     /\ \E i \in 1..Len(text) :
           /\ text[i] \notin HexDigits
           /\ text[i] # "-"
           /\ ~is_ascii_whitespace(text[i]))
    => parsed.kind = "Err"

-----------------------------------------------------------------------------
(* Properties of the renderings. *)

C12_LowerDigits == <<"0", "1", "2", "3", "4", "5", "6", "7",
                     "8", "9", "a", "b", "c", "d", "e", "f">>

C12_UpperDigits == <<"0", "1", "2", "3", "4", "5", "6", "7",
                     "8", "9", "A", "B", "C", "D", "E", "F">>

\* The number of hyphens before the digits of byte k (k in 0..15).
C12_HyphensBefore(k) == Cardinality({h \in {4, 6, 8, 10} : h <= k})

\* s is the rendering of the 16 bytes b with the given digits, hyphenated or not.
C12_Renders(s, b, digits, hyphenated) ==
    /\ Len(s) = IF hyphenated THEN 36 ELSE 32
    /\ hyphenated => \A i \in {9, 14, 19, 24} : s[i] = "-"
    /\ \A k \in 0..15 :
          LET p == 2 * k + 1 + (IF hyphenated THEN C12_HyphensBefore(k) ELSE 0)
          IN  /\ s[p] = digits[(b[k + 1] \div 16) + 1]
              /\ s[p + 1] = digits[(b[k + 1] % 16) + 1]

\* C12: {:x} and {:X} give 36 characters with hyphens at 8, 13, 18, 23 and two hex
\* digits per byte in byte order, lowercase and uppercase; {} gives the 32 lowercase
\* digits alone; for a UUID and for a Layout.
C12_CanonicalRendering ==
    /\ (call.op # "from_str" /\ text # <<>>) =>
          C12_Renders(text, uuid, C12_LowerDigits, TRUE)
    /\ shown # NoShown =>
          /\ C12_Renders(shown.upper, uuid, C12_UpperDigits, TRUE)
          /\ C12_Renders(shown.display, uuid, C12_LowerDigits, FALSE)
          /\ C12_Renders(shown.layout_lower, generate(lay), C12_LowerDigits, TRUE)
          /\ C12_Renders(shown.layout_upper, generate(lay), C12_UpperDigits, TRUE)
          /\ C12_Renders(shown.layout_display, generate(lay), C12_LowerDigits, FALSE)

\* All renderings were made of an identifier with letters among its digits.
C12_Witness ==
    /\ shown # NoShown
    /\ uuid[6] = 171
    /\ uuid[16] = 16

-----------------------------------------------------------------------------
(* Properties of the decoders. *)

\* What version() is to return when the top four bits are n.
C13_Expected(n, r) ==
    /\ n = 1 => r = Ok(Version_TIME)
    /\ n = 2 => r = Ok(Version_DCE)
    /\ n = 3 => r = Ok(Version_MD5)
    /\ n = 4 => r = Ok(Version_RAND)
    /\ n = 5 => r = Ok(Version_SHA1)
    /\ n \notin 1..5 => r.kind = "Err"

\* C13: version() is decided by the top 4 bits of field_high_and_version alone: Ok
\* of TIME, DCE, MD5, RAND, SHA1 for 1..5 and Err for 0 and 6..15.
C13_VersionDecoding ==
    (call.op \in {"v1", "v3", "v4", "v5", "from_raw_bytes"} /\ seen # NoSeen) =>
        /\ C13_Expected(lay.field_high_and_version \div 4096, seen.version)
        /\ call.op = "from_raw_bytes" =>
              C13_Expected(call.bytes[8] \div 16, seen.version)

\* version() was called on a Layout with top bits 5 and the other bits of the byte set.
C13_Witness ==
    /\ call.op = "from_raw_bytes"
    /\ seen # NoSeen
    /\ call.bytes[8] = 95
    /\ seen.version = Ok(Version_SHA1)

\* What variant() is to return for the byte c.
C14_Expected(c, r) ==
    /\ c < 128 => r = Ok(Variant_NCS)
    /\ (c >= 128 /\ c < 192) => r = Ok(Variant_RFC4122)
    /\ (c >= 192 /\ c < 224) => r = Ok(Variant_MS)
    /\ c >= 224 => r = Ok(Variant_FUT)

\* C14: variant() never fails and classifies clock_seq_high_and_reserved by its top
\* bits: 0 NCS, 10 RFC4122, 110 MS, 111 FUT.
C14_VariantDecoding ==
    (call.op \in {"v1", "v3", "v4", "v5", "from_raw_bytes"} /\ seen # NoSeen) =>
        /\ seen.variant.kind = "Ok"
        /\ C14_Expected(lay.clock_seq_high_and_reserved, seen.variant)
        /\ call.op = "from_raw_bytes" => C14_Expected(call.bytes[9], seen.variant)

\* variant() was called on a Layout whose byte is 110 11111.
C14_Witness ==
    /\ call.op = "from_raw_bytes"
    /\ seen # NoSeen
    /\ call.bytes[9] = 223
    /\ seen.variant = Ok(Variant_MS)

\* The value of a hex digit.
C15_DigitValue(c) ==
    IF \E i \in 1..16 : C12_LowerDigits[i] = c
    THEN (CHOOSE i \in 1..16 : C12_LowerDigits[i] = c) - 1
    ELSE (CHOOSE i \in 1..16 : C12_UpperDigits[i] = c) - 1

\* C15: from_str of a well-formed hyphenated string succeeds; version() of the Layout
\* is decided by the digit at index 14 and variant() by the digit at index 19, and
\* both are the same after into() and from_raw_bytes.
C15_ParsedVersionAndVariant ==
    (call.op = "from_str" /\ IsHyphenated36(text)) =>
        /\ parsed.kind # "none" => parsed.kind = "Ok"
        /\ seen # NoSeen =>
              /\ C13_Expected(C15_DigitValue(text[15]), seen.version)
              /\ C14_Expected(16 * C15_DigitValue(text[20]), seen.variant)
              /\ seen.back_version = seen.version
              /\ seen.back_variant = seen.variant

\* tests::UUID_TEST[1] was parsed, packed and unpacked: version DCE, variant RFC4122.
C15_Witness ==
    /\ call.op = "from_str"
    /\ text = UUID_TEST_1
    /\ seen # NoSeen
    /\ seen.back_version = Ok(Version_DCE)
    /\ seen.back_variant = Ok(Variant_RFC4122)

-----------------------------------------------------------------------------
(* DCE security identifiers. *)

V2Ops == {"from_dce_person", "from_dce_group", "from_dce_org"}

\* C16: for every 32-bit id, from_dce_org(id).get_id() is id.
C16_OrgIdRoundTrip ==
    (call.op = "from_dce_org" /\ seen # NoSeen) => seen.id = call.id

\* C17: the layout that from_dce_person, from_dce_group and from_dce_org return has
\* version() = Ok(Version::DCE), whatever the id and the v1 layout underneath.
C17_VersionIsDCE ==
    (call.op \in V2Ops /\ seen # NoSeen) => seen.version = Ok(Version_DCE)

C18_Tag ==
    CASE call.op = "from_dce_person" -> Domain_PERSON
      [] call.op = "from_dce_group" -> Domain_GROUP
      [] call.op = "from_dce_org" -> Domain_ORG
      [] OTHER -> 255

\* C18: the layout generated for a domain has that domain's tag (0, 1, 2) in
\* clock_seq_low and get_domain() returns Ok of it; get_domain() returns Err for
\* every layout whose clock_seq_low is above 2.
C18_DomainTag ==
    /\ (call.op \in V2Ops /\ seen # NoSeen) =>
          /\ C18_Tag \in {0, 1, 2}
          /\ lay.clock_seq_low = C18_Tag
          /\ seen.domain = Ok(C18_Tag)
    /\ (seen # NoSeen /\ lay.clock_seq_low > 2) => seen.domain.kind = "Err"

C18_Witness ==
    /\ call.op = "from_dce_group"
    /\ seen # NoSeen
    /\ seen.domain = Ok(Domain_GROUP)
    /\ lay.clock_seq_low = 1

C19_ExpectedId ==
    CASE call.op = "from_dce_person" -> call.uid
      [] call.op = "from_dce_group" -> call.gid
      [] OTHER -> call.id

\* C19: the id embedded in a v2 identifier (its first four bytes, most significant
\* first) is the user id for PERSON, the group id for GROUP and the caller's
\* integer for ORG; the process id has no effect on it.
C19_IdSelection ==
    (call.op \in V2Ops /\ uuid # <<>>) =>
        LET id == C19_ExpectedId
        IN  /\ uuid[1] = id[2] \div 256
            /\ uuid[2] = id[2] % 256
            /\ uuid[3] = id[1] \div 256
            /\ uuid[4] = id[1] % 256

-----------------------------------------------------------------------------
(* Tagging of hashes and random values. *)

\* C20: the identifier generated by v3, v4 or v5 differs from the 16 input bytes
\* only in the 4 version bits (top of byte 6) and the 2 variant bits (top of
\* byte 8); the other 122 bits are those of the input.
C20_FreeBitsUnchanged ==
    (call.op \in {"v3", "v4", "v5"} /\ uuid # <<>>) =>
        /\ \A k \in (1..16) \ {7, 9} : uuid[k] = call.bytes[k]
        /\ uuid[7] % 16 = call.bytes[7] % 16
        /\ uuid[9] % 64 = call.bytes[9] % 64

====
